---- MODULE Spec2Model ----
(***************************************************************************)
(* State-machine model of the Quoridor rules engine in src/quoridor.py:    *)
(* class Quoridor (board, pawns, fence grid, connectivity cache) and its   *)
(* operations move, put_fence, can_put_fence, is_blocking, move_region.    *)
(*                                                                         *)
(* Positions are pairs <<col, row>>.  Python's None is NONE (-1) in the    *)
(* integer tables (cells, cell tags), "None" in the fence grid and the     *)
(* empty function NoTags for the unset cache.                              *)
(***************************************************************************)
EXTENDS Integers, Sequences, FiniteSets, TLC

VARIABLES
    width,      \* Quoridor.width
    height,     \* Quoridor.height
    pawns,      \* Quoridor.pawns: index -> [side, pos, num_fences, win]
    curr_pawn,  \* Quoridor._curr_pawn
    cells,      \* Quoridor.cells: position -> pawn index or NONE
    cell_tags,  \* Quoridor._cell_tags: NoTags or position -> tag
    grid,       \* Quoridor.grid: slot -> "None" | "VERT" | "HORZ"
    finished,   \* Quoridor.finished
    placed      \* history: pawn index -> number of put_fence calls that returned

vars == <<width, height, pawns, curr_pawn, cells, cell_tags, grid, finished, placed>>

\* The session object's mutable fields, as one record.
session ==
    [pawns |-> pawns, curr_pawn |-> curr_pawn, cells |-> cells,
     cell_tags |-> cell_tags, grid |-> grid, finished |-> finished]

\* How a call of move or put_fence ends: it returns (raised = "") or raises
\* an error (`raised` is the ValueError's message, or IndexError); `state`
\* is the session it leaves behind.
Return(s) == [raised |-> "", state |-> s]
Raise(msg, s) == [raised |-> msg, state |-> s]

\* The element of a one-element set.  Only({F(x) : x \in {e}}) is F(e) with
\* e evaluated once, the way the code holds a result in a local variable.
Only(S) == CHOOSE x \in S : TRUE

(***************************************************************************)
(* Bounds and inputs                                                       *)
(***************************************************************************)
\* Fences each pawn is constructed with (Pawn's num_fences argument).
MaxFences == 1

\* Board sizes <<width, height>> the session is constructed with.
BoardSizes == {<<3, 3>>, <<2, 3>>, <<3, 2>>}

\* Pawn line-ups (the sides, in turn order) the session is constructed with.
PawnSetups == {<<"S", "N">>, <<"W">>, <<"E">>}

NONE == -1
NoTags == <<>>

Compass == {"N", "W", "S", "E"}
Orient == {"VERT", "HORZ"}

(***************************************************************************)
(* Compass                                                                 *)
(***************************************************************************)
oppo(side) ==
    CASE side = "N" -> "S"
      [] side = "W" -> "E"
      [] side = "S" -> "N"
      [] side = "E" -> "W"

CompassCells(side, w, h) ==
    CASE side = "N" -> {<<col, h - 1>> : col \in 0 .. w - 1}
      [] side = "W" -> {<<0, row>> : row \in 0 .. h - 1}
      [] side = "S" -> {<<col, 0>> : col \in 0 .. w - 1}
      [] side = "E" -> {<<w - 1, row>> : row \in 0 .. h - 1}

(***************************************************************************)
(* Construction                                                            *)
(***************************************************************************)
\* Python's int(a/2) for a >= 0.
default_pos(side, w, h) ==
    CASE side = "N" -> <<(w - 1) \div 2, h - 1>>
      [] side = "S" -> <<w \div 2, 0>>
      [] side = "W" -> <<0, (h - 1) \div 2>>
      [] side = "E" -> <<w - 1, h \div 2>>

Pawn(side, pos, num_fences) ==
    [side |-> side, pos |-> pos, num_fences |-> num_fences, win |-> FALSE]

AllCells == (0 .. width - 1) \X (0 .. height - 1)
Slots == (0 .. width - 2) \X (0 .. height - 2)
PawnIds == DOMAIN pawns
NumPawns == Cardinality(DOMAIN pawns)

Init ==
    \E size \in BoardSizes, setup \in PawnSetups :
        LET w == size[1]
            h == size[2]
            ps == [i \in 0 .. Len(setup) - 1 |->
                      Pawn(setup[i + 1], default_pos(setup[i + 1], w, h), MaxFences)]
        IN  /\ width = w
            /\ height = h
            /\ pawns = ps
            /\ curr_pawn = 0
            /\ cells = [pos \in (0 .. w - 1) \X (0 .. h - 1) |->
                           IF \E i \in DOMAIN ps : ps[i].pos = pos
                           THEN CHOOSE i \in DOMAIN ps :
                                    /\ ps[i].pos = pos
                                    /\ \A j \in DOMAIN ps : ps[j].pos = pos => j <= i
                           ELSE NONE]
            /\ cell_tags = NoTags
            /\ grid = [s \in (0 .. w - 2) \X (0 .. h - 2) |-> "None"]
            /\ finished = FALSE
            /\ placed = [i \in DOMAIN ps |-> 0]

(***************************************************************************)
(* Turn order                                                              *)
(***************************************************************************)
\* Mutant: the turn skips a pawn.
next_pawn_skips(i) == (i + 2) % NumPawns

next_pawn(i) == (i + 1) % NumPawns

(***************************************************************************)
(* Connectivity engine: region labeling                                    *)
(***************************************************************************)
\* A list subscript outside its list.
IndexError == "IndexError"

\* A tag table is a Python list of lists, kept as a sequence of sequences:
\* tags[c][r] of the code is tags[c + 1][r + 1] here.
InTable(tags, pos) ==
    /\ pos[1] + 1 \in DOMAIN tags
    /\ pos[2] + 1 \in DOMAIN tags[pos[1] + 1]

TagAt(tags, pos) == tags[pos[1] + 1][pos[2] + 1]

\* The table is_blocking builds (line 159): `height` lists of `width`
\* entries, all None.
TagLen == height
TagLen0 == width
NoneTable == [i \in 1 .. TagLen |-> [j \in 1 .. TagLen0 |-> NONE]]

\* How a labeling step ends: with the table so far, or with an IndexError.
Filled(tags) == [raised |-> "", tags |-> tags]
Failed == [raised |-> IndexError, tags |-> NoTags]

\* The test guarding one step of the traversal (lines 140-141 and alike):
\*     (skipA or grid[a] is not o) and (skipB or grid[b] is not o)
\* evaluated left to right; a subscript off the grid raises IndexError.
edge_test(g, skipA, a, skipB, b, o) ==
    IF ~skipA /\ a \notin DOMAIN g THEN IndexError
    ELSE IF ~skipA /\ g[a] = o THEN "closed"
    ELSE IF ~skipB /\ b \notin DOMAIN g THEN IndexError
    ELSE IF ~skipB /\ g[b] = o THEN "closed"
    ELSE "open"

RECURSIVE fill_cells(_, _, _, _)
RECURSIVE fill_step(_, _, _, _, _, _)

\* One of the four `if` blocks of _fill_cells: after `prev`, when `inside`
\* holds and the edge test passes, the traversal goes on from cell `to`.
fill_step(prev, g, inside, test, to, tag) ==
    IF prev.raised # "" \/ ~inside
    THEN prev
    ELSE IF test = IndexError THEN Failed
    ELSE IF test = "open" THEN fill_cells(prev.tags, g, to, tag)
    ELSE prev

fill_cells(tags, g, pos, tag) ==
    LET c == pos[1]
        r == pos[2]
        w == Len(tags)
        h == Len(tags[1])
        left(t) == fill_step(t, g, c > 0,
                       edge_test(g, r = 0, <<c - 1, r - 1>>,
                                    r = h - 1, <<c - 1, r>>, "VERT"),
                       <<c - 1, r>>, tag)
        right(t) == fill_step(t, g, c < w - 1,
                        edge_test(g, r = 0, <<c, r - 1>>,
                                     r = h - 1, <<c, r>>, "VERT"),
                        <<c + 1, r>>, tag)
        down(t) == fill_step(t, g, r > 0,
                       edge_test(g, c = 0, <<c - 1, r - 1>>,
                                    c = w - 1, <<c, r - 1>>, "HORZ"),
                       <<c, r - 1>>, tag)
        up(t) == fill_step(t, g, r < h - 1,
                     edge_test(g, c = 0, <<c - 1, r>>,
                                  c = w - 1, <<c, r>>, "HORZ"),
                     <<c, r + 1>>, tag)
    IN  IF ~InTable(tags, pos)
        THEN Failed
        ELSE IF TagAt(tags, pos) # NONE
        THEN Filled(tags)
        ELSE Only({up(t3) :
                 t3 \in {down(t2) :
                     t2 \in {right(t1) :
                         t1 \in {left(t0) :
                             t0 \in {Filled([tags EXCEPT ![c + 1][r + 1] = tag])}}}}})

\* The double loop of is_blocking (lines 161-166), position k of the
\* col-major enumeration, with the running table and the next tag.
RECURSIVE label_loop(_, _, _, _)
label_loop(tags, g, tag, k) ==
    IF k >= width * height
    THEN Filled(tags)
    ELSE LET pos == <<k \div height, k % height>>
         IN  IF ~InTable(tags, pos)
             THEN Failed
             ELSE IF TagAt(tags, pos) # NONE
             THEN label_loop(tags, g, tag, k + 1)
             ELSE Only({IF done.raised # ""
                        THEN Failed
                        ELSE label_loop(done.tags, g, tag + 1, k + 1) :
                            done \in {fill_cells(tags, g, pos, tag)}})

compute_tags(g) == label_loop(NoneTable, g, 0, 0)

\* The place of a boundary cell in the list Compass.cells returns.
cell_order(side, dst) == IF side \in {"N", "S"} THEN dst[1] ELSE dst[2]

\* is_blocking(pawn) on fence grid g with cache `cache`: how the call ends,
\* the value returned and the cache it leaves.  all() reads the goal cells
\* in list order and stops at the first one that carries the pawn's tag.
is_blocking(p, g, cache) ==
    LET side == oppo(pawns[p].side)
        goal == CompassCells(side, width, height)
        same(tags) == {dst \in goal :
                          /\ InTable(tags, dst)
                          /\ TagAt(tags, dst) = TagAt(tags, pawns[p].pos)}
        lookup(tags) ==
            IF \/ ~InTable(tags, pawns[p].pos)
               \/ \E dst \in goal :
                      /\ ~InTable(tags, dst)
                      /\ \A d \in same(tags) :
                             cell_order(side, d) > cell_order(side, dst)
            THEN [raised |-> IndexError, cell_tags |-> tags]
            ELSE [raised |-> "", ret |-> same(tags) = {}, cell_tags |-> tags]
    IN  Only({IF built.raised # ""
              THEN [raised |-> IndexError, cell_tags |-> cache]
              ELSE lookup(built.tags) :
                  built \in {IF cache = NoTags THEN compute_tags(g) ELSE Filled(cache)}})

(***************************************************************************)
(* Fence placement                                                         *)
(***************************************************************************)
\* Mutant: a VERT fence is not tested against the slot above.
fence_conflict_misses_above(coord, orient, g) ==
    LET c == coord[1]
        r == coord[2]
    IN  \/ ~(0 <= c /\ c < width - 1 /\ 0 <= r /\ r < height - 1)
        \/ g[coord] # "None"
        \/ /\ orient = "HORZ"
           /\ \/ (c > 0 /\ g[<<c - 1, r>>] = "HORZ")
              \/ (c < width - 2 /\ g[<<c + 1, r>>] = "HORZ")
        \/ /\ orient # "HORZ"
           /\ (r > 0 /\ g[<<c, r - 1>>] = "VERT")

\* The overlap tests of can_put_fence (lines 175-192) on fence grid g: TRUE
\* when the call returns False before the speculative insertion.
fence_conflict(coord, orient, g) ==
    LET c == coord[1]
        r == coord[2]
    IN  \/ ~(0 <= c /\ c < width - 1 /\ 0 <= r /\ r < height - 1)
        \/ g[coord] # "None"
        \/ /\ orient = "HORZ"
           /\ \/ (c > 0 /\ g[<<c - 1, r>>] = "HORZ")
              \/ (c < width - 2 /\ g[<<c + 1, r>>] = "HORZ")
        \/ /\ orient # "HORZ"
           /\ \/ (r > 0 /\ g[<<c, r - 1>>] = "VERT")
              \/ (r < height - 2 /\ g[<<c, r + 1>>] = "VERT")

\* Mutant: the speculative fence is not retracted.
speculate_keeps_fence(coord, orient, g, cache) ==
    LET g1 == [g EXCEPT ![coord] = orient]
        asked(first) ==
            LET answers == [p \in PawnIds |-> is_blocking(p, g1, first.cell_tags)]
                ends(a) == {p \in PawnIds : a[p].raised # "" \/ a[p].ret}
                last(a) == CHOOSE p \in ends(a) : \A q \in ends(a) : p <= q
            IN  Only({IF ends(a) # {} /\ a[last(a)].raised # ""
                      THEN [raised |-> IndexError,
                            grid |-> g1,
                            cell_tags |-> first.cell_tags]
                      ELSE [raised |-> "",
                            ret |-> ends(a) = {},
                            grid |-> g1,
                            cell_tags |-> NoTags] :
                          a \in {answers}})
    IN  Only({IF first.raised # ""
              THEN [raised |-> IndexError, grid |-> g1, cell_tags |-> first.cell_tags]
              ELSE asked(first) :
                  first \in {is_blocking(0, g1, cache)}})

\* The speculative part of can_put_fence (lines 193-197): insert into g, ask
\* is_blocking for the pawns in list order until one is blocked (the first
\* call fills an unset cache, the later ones read it), drop the cache,
\* retract.  An IndexError out of is_blocking leaves the method at line
\* 194: the fence stays in the grid and the cache is as is_blocking left it.
speculate(coord, orient, g, cache) ==
    LET g1 == [g EXCEPT ![coord] = orient]
        asked(first) ==
            LET answers == [p \in PawnIds |-> is_blocking(p, g1, first.cell_tags)]
                ends(a) == {p \in PawnIds : a[p].raised # "" \/ a[p].ret}
                last(a) == CHOOSE p \in ends(a) : \A q \in ends(a) : p <= q
            IN  Only({IF ends(a) # {} /\ a[last(a)].raised # ""
                      THEN [raised |-> IndexError,
                            grid |-> g1,
                            cell_tags |-> first.cell_tags]
                      ELSE [raised |-> "",
                            ret |-> ends(a) = {},
                            grid |-> [g1 EXCEPT ![coord] = "None"],
                            cell_tags |-> NoTags] :
                          a \in {answers}})
    IN  Only({IF first.raised # ""
              THEN [raised |-> IndexError, grid |-> g1, cell_tags |-> first.cell_tags]
              ELSE asked(first) :
                  first \in {is_blocking(0, g1, cache)}})

\* can_put_fence(coord, orient) on a session whose fence grid is g and whose
\* cache is `cache`: how the call ends, the value returned and the grid and
\* cache it leaves.
can_put_fence(coord, orient, g, cache) ==
    IF fence_conflict(coord, orient, g)
    THEN [raised |-> "", ret |-> FALSE, grid |-> g, cell_tags |-> cache]
    ELSE speculate(coord, orient, g, cache)

\* Mutant: the fence is charged to the pawn whose turn it is, whoever
\* places it.
put_fence_charges_turn(coord, orient, player) ==
    LET checked(can) == [session EXCEPT !.grid = can.grid,
                                        !.cell_tags = can.cell_tags]
    IN  IF pawns[player].num_fences <= 0
        THEN Raise("Not enough fences to put", session)
        ELSE Only({IF can.raised # ""
                   THEN Raise(can.raised, checked(can))
                   ELSE IF ~can.ret
                   THEN Raise("Illegal position and orientation to put fence",
                              checked(can))
                   ELSE Return([checked(can) EXCEPT
                                   !.grid = [can.grid EXCEPT ![coord] = orient],
                                   !.pawns = [pawns EXCEPT ![curr_pawn].num_fences = @ - 1],
                                   !.curr_pawn = next_pawn(curr_pawn)]) :
                       can \in {can_put_fence(coord, orient, grid, cell_tags)}})

\* put_fence(coord, orient, player, check=True); an IndexError out of
\* can_put_fence passes through.
put_fence(coord, orient, player) ==
    LET checked(can) == [session EXCEPT !.grid = can.grid,
                                        !.cell_tags = can.cell_tags]
    IN  IF pawns[player].num_fences <= 0
        THEN Raise("Not enough fences to put", session)
        ELSE Only({IF can.raised # ""
                   THEN Raise(can.raised, checked(can))
                   ELSE IF ~can.ret
                   THEN Raise("Illegal position and orientation to put fence",
                              checked(can))
                   ELSE Return([checked(can) EXCEPT
                                   !.grid = [can.grid EXCEPT ![coord] = orient],
                                   !.pawns = [pawns EXCEPT ![player].num_fences = @ - 1],
                                   !.curr_pawn = next_pawn(curr_pawn)]) :
                       can \in {can_put_fence(coord, orient, grid, cell_tags)}})

(***************************************************************************)
(* Pawn movement                                                           *)
(***************************************************************************)
RECURSIVE move_region_rec(_, _)
move_region_rec(pos, st) ==
    LET c == pos[1]
        r == pos[2]
        w == width
        h == height
    IN  IF pos \in st.visited
        THEN st
        ELSE IF cells[pos] = NONE
        THEN [st EXCEPT !.region = @ \cup {pos}]
        ELSE LET s0 == [st EXCEPT !.visited = @ \cup {pos}]
                 s1 == IF /\ c > 0
                          /\ (r = 0 \/ grid[<<c - 1, r - 1>>] # "VERT")
                          /\ (r = h - 1 \/ grid[<<c - 1, r>>] # "VERT")
                       THEN move_region_rec(<<c - 1, r>>, s0)
                       ELSE s0
                 s2 == IF /\ c < w - 1
                          /\ (r = 0 \/ grid[<<c, r - 1>>] # "VERT")
                          /\ (r = h - 1 \/ grid[<<c, r>>] # "VERT")
                       THEN move_region_rec(<<c + 1, r>>, s1)
                       ELSE s1
                 s3 == IF /\ r > 0
                          /\ (c = 0 \/ grid[<<c - 1, r - 1>>] # "HORZ")
                          /\ (c = w - 1 \/ grid[<<c, r - 1>>] # "HORZ")
                       THEN move_region_rec(<<c, r - 1>>, s2)
                       ELSE s2
                 s4 == IF /\ r < h - 1
                          /\ (c = 0 \/ grid[<<c - 1, r>>] # "HORZ")
                          /\ (c = w - 1 \/ grid[<<c, r>>] # "HORZ")
                       THEN move_region_rec(<<c, r + 1>>, s3)
                       ELSE s3
             IN  s4

\* Mutant: the pawns passed through count as destinations too.
move_region_with_visited(p) ==
    LET st == move_region_rec(pawns[p].pos, [region |-> {}, visited |-> {}])
    IN  st.region \cup (st.visited \ {pawns[p].pos})

move_region(p) ==
    move_region_rec(pawns[p].pos, [region |-> {}, visited |-> {}]).region

\* The win test of move (lines 253-256).
move_wins(side, dst) ==
    \/ (side = "N" /\ dst[2] = 0)
    \/ (side = "S" /\ dst[2] = height - 1)
    \/ (side = "W" /\ dst[1] = 0)
    \/ (side = "E" /\ dst[1] = width - 1)

\* Mutant: the turn advances after a winning move too.
move_always_advances(dst, p) ==
    IF dst \notin move_region(p)
    THEN Raise("Illegal destination for pawn", session)
    ELSE LET moved == [session EXCEPT
                          !.cells = [cells EXCEPT ![pawns[p].pos] = NONE, ![dst] = p],
                          !.pawns = [pawns EXCEPT ![p].pos = dst],
                          !.curr_pawn = next_pawn(curr_pawn)]
         IN  IF move_wins(pawns[p].side, dst)
             THEN Return([moved EXCEPT !.pawns[p].win = TRUE, !.finished = TRUE])
             ELSE Return(moved)

\* Mutant: a winning move ends the game without marking the winner.
move_forgets_winner(dst, p) ==
    IF dst \notin move_region(p)
    THEN Raise("Illegal destination for pawn", session)
    ELSE LET moved == [session EXCEPT
                          !.cells = [cells EXCEPT ![pawns[p].pos] = NONE, ![dst] = p],
                          !.pawns = [pawns EXCEPT ![p].pos = dst]]
         IN  IF move_wins(pawns[p].side, dst)
             THEN Return([moved EXCEPT !.finished = TRUE])
             ELSE Return([moved EXCEPT !.curr_pawn = next_pawn(curr_pawn)])

\* Mutant: the source cell is not vacated.
move_keeps_source(dst, p) ==
    IF dst \notin move_region(p)
    THEN Raise("Illegal destination for pawn", session)
    ELSE LET moved == [session EXCEPT
                          !.cells = [cells EXCEPT ![dst] = p],
                          !.pawns = [pawns EXCEPT ![p].pos = dst]]
         IN  IF move_wins(pawns[p].side, dst)
             THEN Return([moved EXCEPT !.pawns[p].win = TRUE, !.finished = TRUE])
             ELSE Return([moved EXCEPT !.curr_pawn = next_pawn(curr_pawn)])

\* move(dst, pawn, check=True)
move(dst, p) ==
    IF dst \notin move_region(p)
    THEN Raise("Illegal destination for pawn", session)
    ELSE LET moved == [session EXCEPT
                          !.cells = [cells EXCEPT ![pawns[p].pos] = NONE, ![dst] = p],
                          !.pawns = [pawns EXCEPT ![p].pos = dst]]
         IN  IF move_wins(pawns[p].side, dst)
             THEN Return([moved EXCEPT !.pawns[p].win = TRUE, !.finished = TRUE])
             ELSE Return([moved EXCEPT !.curr_pawn = next_pawn(curr_pawn)])

(***************************************************************************)
(* Actions: one call of a public method                                    *)
(***************************************************************************)
\* The session's fields take the values of record s.
Becomes(s) ==
    /\ pawns' = s.pawns
    /\ curr_pawn' = s.curr_pawn
    /\ cells' = s.cells
    /\ cell_tags' = s.cell_tags
    /\ grid' = s.grid
    /\ finished' = s.finished
    /\ UNCHANGED <<width, height>>

Move(dst, p) ==
    \E res \in {move(dst, p)} :
        /\ Becomes(res.state)
        /\ UNCHANGED placed

PutFence(coord, orient, player) ==
    \E res \in {put_fence(coord, orient, player)} :
        /\ Becomes(res.state)
        /\ placed' = IF res.raised = ""
                     THEN [placed EXCEPT ![player] = @ + 1]
                     ELSE placed

IsBlocking(p) ==
    \E res \in {is_blocking(p, grid, cell_tags)} :
        /\ Becomes([session EXCEPT !.cell_tags = res.cell_tags])
        /\ UNCHANGED placed

CanPutFence(coord, orient) ==
    \E can \in {can_put_fence(coord, orient, grid, cell_tags)} :
        /\ Becomes([session EXCEPT !.grid = can.grid, !.cell_tags = can.cell_tags])
        /\ UNCHANGED placed

(***************************************************************************)
(* Specification                                                           *)
(***************************************************************************)
\* Destinations and slot coordinates a caller passes: every one on the
\* board, and one off it.
DstInputs == AllCells \cup {<<width, 0>>}
CoordInputs == Slots \cup {<<width - 1, 0>>}

Next ==
    \/ \E p \in PawnIds, dst \in DstInputs : Move(dst, p)
    \/ \E coord \in CoordInputs, orient \in Orient, p \in PawnIds :
           PutFence(coord, orient, p)
    \/ \E p \in PawnIds : IsBlocking(p)
    \/ \E coord \in CoordInputs, orient \in Orient : CanPutFence(coord, orient)

\* Any caller of the class: every public method, for any pawn, at any time.
Spec == Init /\ [][Next]_vars

\* A caller that, like main's loop and the dispatcher do, makes no move or
\* put_fence call once the session is finished.
NextLive ==
    \/ \E p \in PawnIds, dst \in DstInputs : ~finished /\ Move(dst, p)
    \/ \E coord \in CoordInputs, orient \in Orient, p \in PawnIds :
           ~finished /\ PutFence(coord, orient, p)
    \/ \E p \in PawnIds : IsBlocking(p)
    \/ \E coord \in CoordInputs, orient \in Orient : CanPutFence(coord, orient)

SpecLive == Init /\ [][NextLive]_vars

\* The game as the dispatcher do plays it: while the session is not
\* finished, the pawn whose turn it is moves or places a fence.
NextGame ==
    \/ \E dst \in DstInputs : ~finished /\ Move(dst, curr_pawn)
    \/ \E coord \in CoordInputs, orient \in Orient :
           ~finished /\ PutFence(coord, orient, curr_pawn)

SpecGame == Init /\ [][NextGame]_vars

(***************************************************************************)
(* Reference notions the properties are stated with                        *)
(***************************************************************************)
\* The fields a caller can observe; the connectivity cache is not one.
Board(s) == <<s.pawns, s.curr_pawn, s.cells, s.grid, s.finished>>

\* A fence `o` in slot s lies on the edge between the cells a and b.
Blocks(s, o, a, b) ==
    LET sc == s[1]
        sr == s[2]
    IN  \/ /\ o = "VERT"
           /\ {a, b} \in {{<<sc, sr>>, <<sc + 1, sr>>},
                          {<<sc, sr + 1>>, <<sc + 1, sr + 1>>}}
        \/ /\ o = "HORZ"
           /\ {a, b} \in {{<<sc, sr>>, <<sc, sr + 1>>},
                          {<<sc + 1, sr>>, <<sc + 1, sr + 1>>}}

Orthogonal(a, b) ==
    \/ (a[1] = b[1] /\ (a[2] = b[2] + 1 \/ b[2] = a[2] + 1))
    \/ (a[2] = b[2] /\ (a[1] = b[1] + 1 \/ b[1] = a[1] + 1))

\* One fence-unblocked orthogonal step between two cells of the board.
Open(a, b, g) ==
    /\ a \in AllCells
    /\ b \in AllCells
    /\ Orthogonal(a, b)
    /\ \A s \in DOMAIN g : ~Blocks(s, g[s], a, b)

RECURSIVE Grow(_, _)
Grow(set, g) ==
    LET more == set \cup {b \in AllCells : \E a \in set : Open(a, b, g)}
    IN  IF more = set THEN set ELSE Grow(more, g)

\* The cells connected to `from` under fence grid g.
Reach(from, g) == Grow({from}, g)

\* The boundary a pawn of `side` has to reach.
GoalBoundary(side) == CompassCells(oppo(side), width, height)

\* Pawn p is connected to its goal boundary under fence grid g.
Connected(p, g) == Reach(pawns[p].pos, g) \cap GoalBoundary(pawns[p].side) # {}

\* The number of fences standing on grid g.
FencesOnGrid(g) == Cardinality({s \in DOMAIN g : g[s] # "None"})

(***************************************************************************)
(* Properties                                                              *)
(***************************************************************************)

\* C1: in every reachable state every pawn's cell is connected to its goal
\* boundary, and is_blocking answers False for every pawn.
C1_GoalReachable ==
    \A p \in PawnIds :
        /\ Connected(p, grid)
        /\ is_blocking(p, grid, cell_tags).raised = ""
        /\ ~is_blocking(p, grid, cell_tags).ret

\* C2: once the game is finished, every move and put_fence call raises
\* "Game already finished" and leaves the board as it was.
C2_WinTerminality ==
    finished =>
        /\ \A p \in PawnIds, dst \in DstInputs :
               /\ move(dst, p).raised = "Game already finished"
               /\ Board(move(dst, p).state) = Board(session)
        /\ \A coord \in CoordInputs, orient \in Orient, p \in PawnIds :
               /\ put_fence(coord, orient, p).raised = "Game already finished"
               /\ Board(put_fence(coord, orient, p).state) = Board(session)

\* C3: a successful move in an unfinished game sets the mover's win flag and
\* finished exactly when the destination lies on the mover's goal boundary,
\* the boundary of the side opposite its own.
C3_WinDetection ==
    ~finished =>
        \A p \in PawnIds, dst \in DstInputs :
            LET res == move(dst, p)
            IN  res.raised = "" =>
                    ((res.state.pawns[p].win /\ res.state.finished)
                        <=> dst \in GoalBoundary(pawns[p].side))

\* No fence of the same orientation in the neighbouring slot along the
\* fence's axis: left/right for HORZ, below/above for VERT.
AxisClear(coord, orient) ==
    LET near == IF orient = "HORZ"
                THEN {<<coord[1] - 1, coord[2]>>, <<coord[1] + 1, coord[2]>>}
                ELSE {<<coord[1], coord[2] - 1>>, <<coord[1], coord[2] + 1>>}
    IN  \A s \in near \cap Slots : grid[s] # orient

\* The conditions under which a placement is to be accepted.
Placeable(coord, orient, p) ==
    /\ pawns[p].num_fences > 0
    /\ coord \in Slots
    /\ grid[coord] = "None"
    /\ AxisClear(coord, orient)
    /\ \A q \in PawnIds : Connected(q, [grid EXCEPT ![coord] = orient])

\* C4: put_fence succeeds exactly when the pawn has a fence left, the slot
\* is on the grid and empty, no same-orientation fence is next to it along
\* its axis, and with the fence added every pawn still reaches its goal.
C4_FenceAcceptance ==
    \A coord \in CoordInputs, orient \in Orient, p \in PawnIds :
        put_fence(coord, orient, p).raised = "" <=> Placeable(coord, orient, p)

MoveErrors == {"Illegal destination for pawn"}
FenceErrors == {"Not enough fences to put",
                "Illegal position and orientation to put fence"}

\* C5: a move or put_fence call that raises one of its rejection errors
\* leaves the fence grid, the pawns (position, fence count, win flag), the
\* occupancy table, finished and the turn index as they were.
C5_RejectedUnchanged ==
    /\ \A p \in PawnIds, dst \in DstInputs :
           \A res \in {move(dst, p)} :
               res.raised \in MoveErrors => Board(res.state) = Board(session)
    /\ \A coord \in CoordInputs, orient \in Orient, p \in PawnIds :
           \A res \in {put_fence(coord, orient, p)} :
               res.raised \in FenceErrors => Board(res.state) = Board(session)

\* A state where all three rejections occur, the fence one after the
\* speculative insertion (no overlap, but a pawn would be walled off).
C5_Witness ==
    /\ \E p \in PawnIds, dst \in AllCells :
           move(dst, p).raised = "Illegal destination for pawn"
    /\ \E coord \in Slots, orient \in Orient, p \in PawnIds :
           put_fence(coord, orient, p).raised = "Not enough fences to put"
    /\ \E coord \in Slots, orient \in Orient, p \in PawnIds :
           /\ ~fence_conflict(coord, orient, grid)
           /\ put_fence(coord, orient, p).raised =
                  "Illegal position and orientation to put fence"

\* C6: each slot holds at most one orientation, no two HORZ fences sit in
\* slots (c,r) and (c+1,r), and no two VERT fences in (c,r) and (c,r+1).
C6_NoOverlap ==
    \A s \in Slots :
        /\ grid[s] \in {"None", "VERT", "HORZ"}
        /\ (grid[s] = "HORZ" /\ <<s[1] + 1, s[2]>> \in Slots)
               => grid[<<s[1] + 1, s[2]>>] # "HORZ"
        /\ (grid[s] = "VERT" /\ <<s[1], s[2] + 1>> \in Slots)
               => grid[<<s[1], s[2] + 1>>] # "VERT"

\* Two fences stand on the grid, one of them HORZ with an empty slot to its
\* right, where another HORZ fence is refused for overlap and a VERT one is
\* not.
C6_Witness ==
    /\ FencesOnGrid(grid) = 2
    /\ \E s \in Slots :
           LET t == <<s[1] + 1, s[2]>>
           IN  /\ t \in Slots
               /\ grid[s] = "HORZ"
               /\ grid[t] = "None"
               /\ fence_conflict(t, "HORZ", grid)
               /\ can_put_fence(t, "HORZ", grid, cell_tags).raised = ""
               /\ ~can_put_fence(t, "HORZ", grid, cell_tags).ret
               /\ ~fence_conflict(t, "VERT", grid)

RECURSIVE SumOver(_, _)
SumOver(f, S) ==
    IF S = {} THEN 0
    ELSE LET x == CHOOSE y \in S : TRUE
         IN  f[x] + SumOver(f, S \ {x})

\* C7: each pawn's num_fences is its initial count less its successful
\* put_fence calls and never negative; a successful put_fence takes exactly
\* one fence from the acting pawn and none from the others, every other
\* call takes none; the fences on the grid number the total taken.
C7_FenceConservation ==
    /\ \A p \in PawnIds :
           /\ pawns[p].num_fences = MaxFences - placed[p]
           /\ pawns[p].num_fences >= 0
    /\ FencesOnGrid(grid) = SumOver(placed, PawnIds)
    /\ \A coord \in CoordInputs, orient \in Orient, p \in PawnIds :
           \A res \in {put_fence(coord, orient, p)}, q \in PawnIds :
               res.state.pawns[q].num_fences =
                   IF res.raised = "" /\ q = p
                   THEN pawns[q].num_fences - 1
                   ELSE pawns[q].num_fences
    /\ \A p \in PawnIds, dst \in DstInputs, q \in PawnIds :
           move(dst, p).state.pawns[q].num_fences = pawns[q].num_fences

RECURSIVE Times(_, _)
\* next_pawn applied n times to turn index i.
Times(n, i) == IF n = 0 THEN i ELSE Times(n - 1, next_pawn(i))

\* C8: every successful put_fence, and every successful move that does not
\* pass the session's win test, moves the turn index to (i + 1) mod N, so N
\* such actions in a row bring it back; in an unfinished game the moves
\* that pass the win test are those that finish it.
C8_TurnRotation ==
    /\ \A coord \in CoordInputs, orient \in Orient, p \in PawnIds :
           \A res \in {put_fence(coord, orient, p)} :
               res.raised = "" =>
                   res.state.curr_pawn = (curr_pawn + 1) % NumPawns
    /\ \A p \in PawnIds, dst \in DstInputs :
           \A res \in {move(dst, p)} :
               res.raised = "" =>
                   /\ ~move_wins(pawns[p].side, dst) =>
                          res.state.curr_pawn = (curr_pawn + 1) % NumPawns
                   /\ ~finished =>
                          (res.state.finished <=> move_wins(pawns[p].side, dst))
    /\ Times(NumPawns, curr_pawn) = curr_pawn
    /\ curr_pawn \in PawnIds

\* The turn has come round: with more than one pawn, the first pawn is to
\* act again after a fence and a move, and another non-winning move is open.
C8_Witness ==
    /\ NumPawns > 1
    /\ curr_pawn = 0
    /\ FencesOnGrid(grid) = 1
    /\ pawns[1].pos # default_pos(pawns[1].side, width, height)
    /\ ~finished
    /\ \E dst \in AllCells :
           /\ move(dst, curr_pawn).raised = ""
           /\ ~move(dst, curr_pawn).state.finished

RECURSIVE GrowOccupied(_)
GrowOccupied(set) ==
    LET more == set \cup {b \in AllCells :
                             /\ cells[b] # NONE
                             /\ \E a \in set : Open(a, b, grid)}
    IN  IF more = set THEN set ELSE GrowOccupied(more)

\* The empty cells at the end of a path of open steps from p's cell whose
\* cells in between all hold pawns.
JumpRegion(p) ==
    {e \in AllCells :
        /\ cells[e] = NONE
        /\ \E a \in GrowOccupied({pawns[p].pos}) : Open(a, e, grid)}

Directions == {<<1, 0>>, <<-1, 0>>, <<0, 1>>, <<0, -1>>}

\* Pawn q stands next to p in direction d with no fence between them, and
\* the cell beyond q is on the board, empty and not fenced off from q.
CanJump(p, q, d) ==
    LET at == pawns[p].pos
        over == <<at[1] + d[1], at[2] + d[2]>>
        beyond == <<at[1] + 2 * d[1], at[2] + 2 * d[2]>>
    IN  /\ q # p
        /\ pawns[q].pos = over
        /\ Open(at, over, grid)
        /\ beyond \in AllCells
        /\ cells[beyond] = NONE
        /\ Open(over, beyond, grid)

\* C9: move_region(p) is exactly the set of empty cells reached from p's
\* cell by open steps through occupied cells; it holds no occupied cell,
\* and it holds the cell beyond an adjacent unfenced pawn.
C9_MoveRegion ==
    \A p \in PawnIds :
        \A region \in {move_region(p)} :
            /\ region = JumpRegion(p)
            /\ \A e \in region : cells[e] = NONE
            /\ \A q \in PawnIds : pawns[q].pos \notin region
            /\ \A q \in PawnIds, d \in Directions :
                   CanJump(p, q, d) =>
                       <<pawns[p].pos[1] + 2 * d[1], pawns[p].pos[2] + 2 * d[2]>>
                           \in region

\* A pawn can jump another, while a fence closes one of its own steps.
C9_Witness ==
    \E p \in PawnIds, q \in PawnIds, d \in Directions :
        /\ CanJump(p, q, d)
        /\ \E b \in AllCells :
               /\ Orthogonal(pawns[p].pos, b)
               /\ ~Open(pawns[p].pos, b, grid)

\* C10: move succeeds exactly for the destinations in move_region of the
\* pre-state and otherwise raises "Illegal destination"; on success the
\* source cell is empty, the destination holds the pawn, pawn.pos is the
\* destination, and the turn stays where it is when the move passes the win
\* test (which sets the win flag and finished) and advances when not.
C10_MoveEffect ==
    \A p \in PawnIds, dst \in DstInputs :
        \A res \in {move(dst, p)}, src \in {pawns[p].pos},
           won \in {move_wins(pawns[p].side, dst)} :
            /\ res.raised = "" <=> dst \in move_region(p)
            /\ res.raised \in {""} \cup MoveErrors
            /\ res.raised = "" =>
                   /\ res.state.cells[src] = NONE
                   /\ res.state.cells[dst] = p
                   /\ res.state.pawns[p].pos = dst
                   /\ res.state.pawns[p].win = (pawns[p].win \/ won)
                   /\ res.state.finished = (finished \/ won)
                   /\ res.state.curr_pawn =
                          IF won THEN curr_pawn ELSE (curr_pawn + 1) % NumPawns

\* In an unfinished two-pawn game the pawn to move has a winning move, a
\* move that does not win, and a cell of the board it may not move to.
C10_Witness ==
    /\ ~finished
    /\ NumPawns > 1
    /\ \E dst \in AllCells :
           /\ move(dst, curr_pawn).raised = ""
           /\ move(dst, curr_pawn).state.finished
           /\ move(dst, curr_pawn).state.curr_pawn = curr_pawn
    /\ \E dst \in AllCells :
           /\ move(dst, curr_pawn).raised = ""
           /\ ~move(dst, curr_pawn).state.finished
           /\ move(dst, curr_pawn).state.curr_pawn # curr_pawn
    /\ \E dst \in AllCells \ {pawns[curr_pawn].pos} :
           move(dst, curr_pawn).raised # ""

\* C11: every pawn's position is a cell of the board, no two pawns share a
\* position, and the occupancy table holds pawn p at exactly p's position
\* and nothing anywhere else.
C11_PawnOccupancy ==
    /\ DOMAIN cells = AllCells
    /\ \A p \in PawnIds : pawns[p].pos \in AllCells
    /\ \A p \in PawnIds, q \in PawnIds : pawns[p].pos = pawns[q].pos => p = q
    /\ \A pos \in AllCells :
           /\ cells[pos] \in PawnIds \cup {NONE}
           /\ \A p \in PawnIds : cells[pos] = p <=> pawns[p].pos = pos

\* Both pawns have left their starting cells and stand next to each other;
\* a move onto the other pawn's cell is refused and a move elsewhere is not.
C11_Witness ==
    \E p \in PawnIds, q \in PawnIds :
        /\ p # q
        /\ Orthogonal(pawns[p].pos, pawns[q].pos)
        /\ pawns[p].pos # default_pos(pawns[p].side, width, height)
        /\ pawns[q].pos # default_pos(pawns[q].side, width, height)
        /\ move(pawns[q].pos, p).raised = "Illegal destination for pawn"
        /\ \E dst \in AllCells : move(dst, p).raised = ""

\* C12: a can_put_fence call returns a value and leaves the fence grid and
\* the cache as they were before it; the same call made again right after
\* it returns the same value and again leaves grid and cache as they were
\* before the first call.
C12_Idempotent ==
    \A coord \in CoordInputs, orient \in Orient :
        \A first \in {can_put_fence(coord, orient, grid, cell_tags)} :
            /\ first.raised = ""
            /\ first.grid = grid
            /\ first.cell_tags = cell_tags
            /\ \A again \in {can_put_fence(coord, orient, first.grid, first.cell_tags)} :
                   /\ again.raised = ""
                   /\ again.ret = first.ret
                   /\ again.grid = grid
                   /\ again.cell_tags = cell_tags

\* Board widths and heights the placement rule is checked for.
EdgeLengths == 1 .. 6

\* The middle cell of an edge of n cells (indices 0 .. n-1), the higher
\* index of the two middle cells when n is even.
Midpoint(n) == CHOOSE i \in 0 .. n - 1 : i = n - 1 - i \/ i = n - i

\* C13: for every width and height each side's default position lies on
\* that side's own edge, at the edge's midpoint, the higher-index middle
\* cell when the edge has an even number of cells.
C13_DefaultPlacement ==
    \A w \in EdgeLengths \cup {width}, h \in EdgeLengths \cup {height} :
        /\ default_pos("N", w, h) = <<Midpoint(w), h - 1>>
        /\ default_pos("S", w, h) = <<Midpoint(w), 0>>
        /\ default_pos("W", w, h) = <<0, Midpoint(h)>>
        /\ default_pos("E", w, h) = <<w - 1, Midpoint(h)>>

\* C14: whenever is_blocking reads a cache that is set, the cache is the
\* labeling of the fence grid as it is at that moment: for a direct call the
\* session's grid, for the calls made by can_put_fence the grid with the
\* speculative fence in it.
C14_CacheCoherent ==
    cell_tags # NoTags =>
        /\ compute_tags(grid) = Filled(cell_tags)
        /\ \A coord \in CoordInputs, orient \in Orient :
               ~fence_conflict(coord, orient, grid) =>
                   compute_tags([grid EXCEPT ![coord] = orient]) = Filled(cell_tags)

\* C15: however a can_put_fence call ends (True, False or an error out of
\* the connectivity computation), it leaves the fence grid as it was before
\* the call and the cache unset.
C15_CleanupOnExit ==
    \A coord \in CoordInputs, orient \in Orient :
        \A res \in {can_put_fence(coord, orient, grid, cell_tags)} :
            /\ res.grid = grid
            /\ res.cell_tags = NoTags

\* C16: on every board the labeling is_blocking computes for the fence grid
\* ends without error, gives every cell a label, gives two cells the same
\* label exactly when they are connected by open steps, and is_blocking(p)
\* with an unset cache is True exactly when p's cell is connected to no cell
\* of its goal boundary.
C16_Labeling ==
    \A built \in {compute_tags(grid)} :
        /\ built.raised = ""
        /\ \A a \in AllCells : InTable(built.tags, a) /\ TagAt(built.tags, a) # NONE
        /\ \A a \in AllCells, b \in AllCells :
               TagAt(built.tags, a) = TagAt(built.tags, b) <=> b \in Reach(a, grid)
        /\ \A p \in PawnIds :
               \A res \in {is_blocking(p, grid, NoTags)} :
                   /\ res.raised = ""
                   /\ res.ret <=> ~Connected(p, grid)

\* A tag table of the shape is_blocking builds in which every cell but a
\* and b is labelled already: the traversal started at a can only take the
\* one step to b.
ProbeTable(a, b) ==
    [i \in 1 .. TagLen |->
        [j \in 1 .. TagLen0 |-> IF <<i - 1, j - 1>> \in {a, b} THEN NONE ELSE 1]]

\* The labeling traversal steps from cell a to cell b on fence grid g.
FillSteps(a, b, g) ==
    \E done \in {fill_cells(ProbeTable(a, b), g, a, 0)} :
        /\ done.raised = ""
        /\ InTable(done.tags, b)
        /\ TagAt(done.tags, b) = 0

\* C17: the labeling traversal of is_blocking steps between two cells
\* exactly when they are orthogonal neighbours with no fence on their edge
\* (a VERT fence in slot (sc,sr) lies on (sc,sr)-(sc+1,sr) and on
\* (sc,sr+1)-(sc+1,sr+1), a HORZ fence on (sc,sr)-(sc,sr+1) and on
\* (sc+1,sr)-(sc+1,sr+1)), in both directions alike and without a subscript
\* off the grid; the move-region traversal steps from a pawn's cell to an
\* empty neighbour under the same condition.
C17_StepRelation ==
    /\ \A a \in AllCells, b \in AllCells :
           a # b =>
               /\ fill_cells(ProbeTable(a, b), grid, a, 0).raised = ""
               /\ FillSteps(a, b, grid) <=> Open(a, b, grid)
               /\ FillSteps(a, b, grid) <=> FillSteps(b, a, grid)
    /\ \A p \in PawnIds, b \in AllCells :
           (cells[b] = NONE /\ Orthogonal(pawns[p].pos, b)) =>
               (b \in move_region(p) <=> Open(pawns[p].pos, b, grid))
    /\ \A p \in PawnIds, b \in AllCells :
           (cells[b] = NONE /\ Orthogonal(pawns[p].pos, b)) =>
               (b \in move_region(p) <=> FillSteps(pawns[p].pos, b, grid))

\* C18: a successful put_fence changes the targeted slot, the acting pawn's
\* fence count and the turn index, and leaves every other slot, every
\* pawn's position, side and win flag, the other pawns' fence counts, the
\* occupancy table and finished as they were; a successful move leaves the
\* fence grid, every fence count, the other pawns' positions and win flags
\* and every occupancy cell but source and destination as they were, and
\* never clears a win flag or finished.
C18_Frame ==
    /\ \A coord \in CoordInputs, orient \in Orient, p \in PawnIds :
           \A res \in {put_fence(coord, orient, p)} :
               res.raised = "" =>
                   /\ grid[coord] = "None"
                   /\ res.state.grid = [grid EXCEPT ![coord] = orient]
                   /\ res.state.pawns =
                          [pawns EXCEPT ![p].num_fences = pawns[p].num_fences - 1]
                   /\ res.state.cells = cells
                   /\ res.state.finished = finished
                   /\ res.state.curr_pawn = next_pawn(curr_pawn)
    /\ \A p \in PawnIds, dst \in DstInputs :
           \A res \in {move(dst, p)} :
               res.raised = "" =>
                   /\ res.state.grid = grid
                   /\ \A q \in PawnIds :
                          /\ res.state.pawns[q].num_fences = pawns[q].num_fences
                          /\ res.state.pawns[q].side = pawns[q].side
                          /\ q # p => res.state.pawns[q] = pawns[q]
                   /\ \A c \in AllCells \ {pawns[p].pos, dst} :
                          res.state.cells[c] = cells[c]
                   /\ pawns[p].win => res.state.pawns[p].win
                   /\ finished => res.state.finished
                   /\ res.state.curr_pawn \in {curr_pawn, next_pawn(curr_pawn)}

\* With a fence on the grid and the cache filled by a query, a pawn that is
\* not the one to move can place a fence, and the pawn to move can make a
\* move that wins and one that does not.
C18_Witness ==
    /\ FencesOnGrid(grid) >= 1
    /\ cell_tags # NoTags
    /\ ~finished
    /\ \E coord \in Slots, orient \in Orient, p \in PawnIds \ {curr_pawn} :
           put_fence(coord, orient, p).raised = ""
    /\ \E dst \in AllCells :
           /\ move(dst, curr_pawn).raised = ""
           /\ move(dst, curr_pawn).state.finished
    /\ \E dst \in AllCells :
           /\ move(dst, curr_pawn).raised = ""
           /\ ~move(dst, curr_pawn).state.finished

\* C19: in the two-pawn game of SOUTH and NORTH on a board at least 3
\* high, in every unfinished state the pawn to move has a legal move.
C19_NoStuckPlayer ==
    (NumPawns = 2 /\ height >= 3 /\ ~finished) =>
        /\ move_region(curr_pawn) # {}
        /\ \E dst \in AllCells : move(dst, curr_pawn).raised = ""

\* The pawns whose win flag is set.
Winners == {p \in PawnIds : pawns[p].win}

\* C20: when every action is the current pawn's, the session is finished
\* exactly when one pawn has its win flag set, and that pawn is curr_pawn,
\* the one main reports as the winner.
C20_WinnerIsCurrent ==
    /\ finished <=> Cardinality(Winners) = 1
    /\ finished => Winners = {curr_pawn}
    /\ ~finished => Winners = {}

\* The second pawn of a two-pawn game has won, after a fence was placed.
C20_Witness ==
    /\ finished
    /\ NumPawns = 2
    /\ curr_pawn = 1
    /\ pawns[1].win
    /\ ~pawns[0].win
    /\ FencesOnGrid(grid) >= 1

====
